---- MODULE Spec2Model ----
(***************************************************************************)
(* datatype-validators: five independent validator crates (Boolean,        *)
(* Integer, Floating point, Text, URL).  Each crate has one internal       *)
(* predicate validate_* over a decoded value; the predicates are modelled  *)
(* as operators computed the way the Rust code computes them, and each     *)
(* call of a predicate is one action that records the argument and the     *)
(* returned bool.  The exported validate of each crate decodes a          *)
(* JavaScript value first; history is the sequence of exported calls the   *)
(* host has noted, with their results.                                     *)
(*                                                                         *)
(* Representation:                                                         *)
(*   - a Rust char is its Unicode code point (a natural number), a         *)
(*     str/String is a sequence of code points;                            *)
(*   - a 64-bit integer is a sequence of decimal digits (most significant  *)
(*     first, no leading zero, zero is <<0>>) with a sign, so that the     *)
(*     bounds of i64 and u64 keep their real values;                       *)
(*   - an f64 held by a serde_json Number is named by its shortest decimal *)
(*     representation: neg, mant, exp with value (-1)^neg * mant * 10^exp, *)
(*     mant a digit sequence not ending in 0 unless the value is zero      *)
(*     (mant = <<0>>, exp = 0).                                            *)
(***************************************************************************)
EXTENDS Integers, Sequences, FiniteSets, TLC

VARIABLES called, arg, result, history

vars == <<called, arg, result, history>>

----------------------------------------------------------------------------
(* Bounds of the model *)

\* longest string enumerated exhaustively over a validator's alphabet
MaxLen == 3

----------------------------------------------------------------------------
(* Characters and strings *)

\* segments of printable ASCII, in code point order
Seg20 == " !"
Seg23 == "#$%&'()*+,-./0123456789:;<=>?@ABCDEFGHIJKLMNOPQRSTUVWXYZ["
Seg5D == "]^_"
Seg61 == "abcdefghijklmnopqrstuvwxyz{|}~"

\* code point of the one-character string c
Ord(c) ==
  IF c = "\t" THEN 9
  ELSE IF c = "\n" THEN 10
  ELSE IF c = "\r" THEN 13
  ELSE IF \E i \in 1..Len(Seg20) : SubSeq(Seg20, i, i) = c
    THEN 31 + (CHOOSE i \in 1..Len(Seg20) : SubSeq(Seg20, i, i) = c)
  ELSE IF \E i \in 1..Len(Seg23) : SubSeq(Seg23, i, i) = c
    THEN 34 + (CHOOSE i \in 1..Len(Seg23) : SubSeq(Seg23, i, i) = c)
  ELSE IF \E i \in 1..Len(Seg5D) : SubSeq(Seg5D, i, i) = c
    THEN 92 + (CHOOSE i \in 1..Len(Seg5D) : SubSeq(Seg5D, i, i) = c)
  ELSE 96 + (CHOOSE i \in 1..Len(Seg61) : SubSeq(Seg61, i, i) = c)

\* the Rust string literal lit as a sequence of code points
Str(lit) == [i \in 1..Len(lit) |-> Ord(SubSeq(lit, i, i))]

\* all strings over alphabet of length at most n
RECURSIVE StringsUpTo(_, _)
StringsUpTo(alphabet, n) ==
  IF n = 0 THEN {<<>>}
  ELSE LET shorter == StringsUpTo(alphabet, n - 1)
       IN shorter \cup {Append(s, c) : s \in shorter, c \in alphabet}

\* char::is_whitespace: the Unicode White_Space property
is_whitespace(c) ==
  \/ c \in 9..13
  \/ c = 32
  \/ c = 133
  \/ c = 160
  \/ c = 5760
  \/ c \in 8192..8202
  \/ c \in {8232, 8233, 8239, 8287, 12288}

\* str::trim_start
RECURSIVE trim_start(_)
trim_start(s) ==
  IF s # <<>> /\ is_whitespace(Head(s)) THEN trim_start(Tail(s)) ELSE s

\* str::trim_end
RECURSIVE trim_end(_)
trim_end(s) ==
  IF s # <<>> /\ is_whitespace(s[Len(s)])
  THEN trim_end(SubSeq(s, 1, Len(s) - 1))
  ELSE s

\* str::trim: leading and trailing White_Space removed
trim(s) == trim_end(trim_start(s))

\* char::to_lowercase, a string because one char may lower to several:
\* ASCII and Latin-1 capitals, KELVIN SIGN and I WITH DOT ABOVE; every
\* other character of the alphabets used here lowers to itself
char_to_lowercase(c) ==
  IF c \in 65..90 THEN <<c + 32>>
  ELSE IF c \in 192..222 /\ c # 215 THEN <<c + 32>>
  ELSE IF c = 8490 THEN <<107>>
  ELSE IF c = 304 THEN <<105, 775>>
  ELSE <<c>>

\* str::to_lowercase
RECURSIVE to_lowercase(_)
to_lowercase(s) ==
  IF s = <<>> THEN <<>>
  ELSE IF Len(s) = 1 THEN char_to_lowercase(s[1])
  ELSE LET half == Len(s) \div 2
       IN to_lowercase(SubSeq(s, 1, half)) \o to_lowercase(SubSeq(s, half + 1, Len(s)))

----------------------------------------------------------------------------
(* 64-bit integers as decimal digit sequences *)

\* the digits of a literal of ASCII digits
Digits(lit) == [i \in 1..Len(lit) |-> Ord(SubSeq(lit, i, i)) - 48]

I64_MAX == Digits("9223372036854775807")
I64_MIN_MAG == Digits("9223372036854775808")
U64_MAX == Digits("18446744073709551615")

\* a <= b for canonical digit sequences
RECURSIVE DecLexLeq(_, _)
DecLexLeq(a, b) ==
  IF a = <<>> THEN TRUE
  ELSE IF Head(a) # Head(b) THEN Head(a) < Head(b)
  ELSE DecLexLeq(Tail(a), Tail(b))

DecLeq(a, b) ==
  IF Len(a) # Len(b) THEN Len(a) < Len(b) ELSE DecLexLeq(a, b)

DecZero == <<0>>
DecOne == <<1>>

----------------------------------------------------------------------------
(* serde_json::Value *)

Null == [tag |-> "Null"]
Bool(b) == [tag |-> "Bool", b |-> b]
String(s) == [tag |-> "String", s |-> s]
Array(items) == [tag |-> "Array", items |-> items]
Object(entries) == [tag |-> "Object", entries |-> entries]

\* serde_json::Number: N::PosInt(u64), N::NegInt(i64, always negative),
\* N::Float(f64, always finite)
PosInt(mag) == [tag |-> "Number", repr |-> "PosInt", mag |-> mag]
NegInt(mag) == [tag |-> "Number", repr |-> "NegInt", mag |-> mag]
Float(neg, mant, exp) ==
  [tag |-> "Number", repr |-> "Float", neg |-> neg, mant |-> mant, exp |-> exp]

None == [some |-> FALSE]
Some(v) == [some |-> TRUE, v |-> v]

\* Number::as_i64
as_i64(n) ==
  IF n.repr = "PosInt"
  THEN IF DecLeq(n.mag, I64_MAX) THEN Some([neg |-> FALSE, mag |-> n.mag]) ELSE None
  ELSE IF n.repr = "NegInt" THEN Some([neg |-> TRUE, mag |-> n.mag])
  ELSE None

\* Number::as_u64
as_u64(n) == IF n.repr = "PosInt" THEN Some(n.mag) ELSE None

\* digits without their trailing zeros (zero stays <<0>>)
RECURSIVE StripTrailingZeros(_)
StripTrailingZeros(d) ==
  IF Len(d) > 1 /\ d[Len(d)] = 0
  THEN StripTrailingZeros(SubSeq(d, 1, Len(d) - 1))
  ELSE d

\* the f64 of an integer magnitude (exact below 2^53, which covers every
\* comparison the validators make with it)
IntAsF64(neg, mag) ==
  LET mant == StripTrailingZeros(mag)
  IN [neg |-> neg, mant |-> mant, exp |-> Len(mag) - Len(mant)]

\* Number::as_f64
as_f64(n) ==
  IF n.repr = "Float" THEN Some([neg |-> n.neg, mant |-> n.mant, exp |-> n.exp])
  ELSE Some(IntAsF64(n.repr = "NegInt", n.mag))

\* Number::is_i64
is_i64(n) ==
  IF n.repr = "PosInt" THEN DecLeq(n.mag, I64_MAX)
  ELSE n.repr = "NegInt"

\* Number::is_u64
is_u64(n) == n.repr = "PosInt"

\* Number::is_f64
is_f64(n) == n.repr = "Float"

----------------------------------------------------------------------------
(* Boolean/boolean-validator *)

BOOLEAN_TOKENS ==
  { Str("true"), Str("false"), Str("yes"), Str("no"), Str("on"), Str("off"),
    Str("1"), Str("0"), Str("y"), Str("n"), Str("t"), Str("f") }

\* i == 0 || i == 1 on an i64
I64IsZeroOrOne(i) == i.mag = DecZero \/ (~i.neg /\ i.mag = DecOne)

\* u == 0 || u == 1 on a u64
U64IsZeroOrOne(u) == u = DecZero \/ u = DecOne

\* f == 0.0 || f == 1.0 on an f64 (-0.0 == 0.0 in IEEE 754)
F64IsZeroOrOne(f) ==
  \/ f.mant = DecZero
  \/ (~f.neg /\ f.mant = DecOne /\ f.exp = 0)

\* the String arm without the trim
validate_boolean_string_untrimmed(s) == to_lowercase(s) \in BOOLEAN_TOKENS

\* the String arm of validate_boolean
validate_boolean_string(s) ==
  LET lower == to_lowercase(trim(s))
  IN lower \in BOOLEAN_TOKENS

\* the Number arm with the float compared after truncation to an integer
validate_boolean_number_truncating(n) ==
  IF as_i64(n).some THEN I64IsZeroOrOne(as_i64(n).v)
  ELSE IF as_u64(n).some THEN U64IsZeroOrOne(as_u64(n).v)
  ELSE as_f64(n).v.exp < 0 \/ F64IsZeroOrOne(as_f64(n).v)

\* the Number arm of validate_boolean
validate_boolean_number(n) ==
  IF as_i64(n).some THEN I64IsZeroOrOne(as_i64(n).v)
  ELSE IF as_u64(n).some THEN U64IsZeroOrOne(as_u64(n).v)
  ELSE IF as_f64(n).some THEN F64IsZeroOrOne(as_f64(n).v)
  ELSE FALSE

validate_boolean(value) ==
  IF value.tag = "Bool" THEN TRUE
  ELSE IF value.tag = "String" THEN validate_boolean_string(value.s)
  ELSE IF value.tag = "Number" THEN validate_boolean_number(value)
  ELSE FALSE

----------------------------------------------------------------------------
(* Number/integer-validator *)

\* acc * 10 + d on digit sequences
DecPush(acc, d) == IF acc = DecZero THEN <<d>> ELSE Append(acc, d)

\* the accumulation loop of from_str_radix(src, 10): for each character,
\* to_digit(10), then checked_mul(10), then checked_add (checked_sub for a
\* negative number); limit is the largest magnitude of the type and sign
RECURSIVE parse_digits(_, _, _)
parse_digits(digits, acc, limit) ==
  IF digits = <<>> THEN Some(acc)
  ELSE IF Head(digits) \notin 48..57 THEN None
  ELSE IF ~DecLeq(DecPush(acc, 0), limit) THEN None
  ELSE IF ~DecLeq(DecPush(acc, Head(digits) - 48), limit) THEN None
  ELSE parse_digits(Tail(digits), DecPush(acc, Head(digits) - 48), limit)

\* str::parse::<i64>
parse_i64(src) ==
  IF src = <<>> THEN None
  ELSE IF Head(src) \in {43, 45} /\ Tail(src) = <<>> THEN None
  ELSE IF Head(src) = 43 THEN parse_digits(Tail(src), DecZero, I64_MAX)
  ELSE IF Head(src) = 45 THEN parse_digits(Tail(src), DecZero, I64_MIN_MAG)
  ELSE parse_digits(src, DecZero, I64_MAX)

\* str::parse::<u64>: a '-' is no sign of an unsigned type
parse_u64(src) ==
  IF src = <<>> THEN None
  ELSE IF Head(src) \in {43, 45} /\ Tail(src) = <<>> THEN None
  ELSE IF Head(src) = 43 THEN parse_digits(Tail(src), DecZero, U64_MAX)
  ELSE parse_digits(src, DecZero, U64_MAX)

\* the Number arm accepting only what fits an i64
validate_integer_number_i64_only(n) == is_i64(n)

\* the Number arm of validate_integer
validate_integer_number(n) == is_i64(n) \/ is_u64(n)

\* the String arm without the second parse, as u64
validate_integer_string_i64_only(s) ==
  LET trimmed == trim(s)
  IN IF trimmed = <<>> THEN FALSE ELSE parse_i64(trimmed).some

\* the String arm of validate_integer
validate_integer_string(s) ==
  LET trimmed == trim(s)
  IN IF trimmed = <<>> THEN FALSE
     ELSE IF parse_i64(trimmed).some THEN TRUE
     ELSE IF parse_u64(trimmed).some THEN TRUE
     ELSE FALSE

validate_integer(value) ==
  IF value.tag = "Number" THEN validate_integer_number(value)
  ELSE IF value.tag = "String" THEN validate_integer_string(value.s)
  ELSE FALSE

----------------------------------------------------------------------------
(* Number/floatingpoint-validator *)

FLOAT_SPECIAL_TOKENS ==
  { Str("nan"), Str("infinity"), Str("-infinity"), Str("inf"), Str("-inf"), Str("+inf") }

\* 2^1024 - 2^970, halfway between f64::MAX and 2^1024: a decimal number
\* rounds to a finite f64 iff it is below it in magnitude (at the halfway
\* point round-half-to-even goes up, f64::MAX having an odd significand)
F64_OVERFLOW ==
  Digits("179769313486231580793728971405303415079934132710037826936173778980444968292764750946649017977587207096330286416692887910946555547851940402630657488671505820681908902000708383676273854845817711531764475730270069855571366959622842914819860834936475292719074168444365510704342711559699508093042880177904174497792")

\* number of leading ASCII digits of s
DigitPrefixLen(s) ==
  IF \A k \in 1..Len(s) : s[k] \in 48..57 THEN Len(s)
  ELSE (CHOOSE k \in 1..Len(s) :
          s[k] \notin 48..57 /\ \A m \in 1..(k - 1) : s[m] \in 48..57) - 1

\* s without its first n characters
Drop(s, n) == SubSeq(s, n + 1, Len(s))

\* the exponent accumulated by parse_scientific: it stops growing at 0x10000
RECURSIVE AccumulateExponent(_, _)
AccumulateExponent(ds, exponent) ==
  IF ds = <<>> THEN exponent
  ELSE AccumulateExponent(Tail(ds),
         IF exponent < 65536 THEN 10 * exponent + (Head(ds) - 48) ELSE exponent)

\* dec2flt::parse::parse_scientific, after the 'e': optional sign, then at
\* least one digit; rest is what follows the digits
parse_scientific(s) ==
  LET negative == s # <<>> /\ Head(s) = 45
      t == IF s # <<>> /\ Head(s) \in {43, 45} THEN Tail(s) ELSE s
      n == DigitPrefixLen(t)
      exponent == AccumulateExponent(SubSeq(t, 1, n), 0)
  IN IF n = 0 THEN None
     ELSE Some([exp |-> IF negative THEN -exponent ELSE exponent, rest |-> Drop(t, n)])

\* dec2flt::parse::parse_number: digits, optional '.' and digits, at least
\* one digit in all, optional exponent, nothing left over; the number read
\* is digits * 10^exp
parse_number(s) ==
  LET n1 == DigitPrefixLen(s)
      rest1 == Drop(s, n1)
      dot == rest1 # <<>> /\ Head(rest1) = 46
      n2 == IF dot THEN DigitPrefixLen(Tail(rest1)) ELSE 0
      rest2 == IF dot THEN Drop(Tail(rest1), n2) ELSE rest1
      digits == [k \in 1..(n1 + n2) |->
                  (IF k <= n1 THEN s[k] ELSE s[k + 1]) - 48]
  IN IF n1 + n2 = 0 THEN None
     ELSE IF rest2 # <<>> /\ Head(rest2) \in {101, 69}
       THEN LET e == parse_scientific(Tail(rest2))
            IN IF ~e.some THEN None
               ELSE IF e.v.rest # <<>> THEN None
               ELSE Some([digits |-> digits, exp |-> e.v.exp - n2])
     ELSE IF rest2 # <<>> THEN None
     ELSE Some([digits |-> digits, exp |-> -n2])

\* ASCII letters of s in lower case
AsciiLower(s) == [k \in 1..Len(s) |-> IF s[k] \in 65..90 THEN s[k] + 32 ELSE s[k]]

\* the spellings parse_inf_nan reads, in any case
NAN_SPELLINGS == { Str("nan") }
INF_SPELLINGS == { Str("inf"), Str("infinity") }

\* dec2flt::parse::parse_inf_nan
parse_inf_nan(s) ==
  IF AsciiLower(s) \in NAN_SPELLINGS THEN Some("nan")
  ELSE IF AsciiLower(s) \in INF_SPELLINGS THEN Some("inf")
  ELSE None

\* a < b for digit sequences read as decimal fractions 0.a and 0.b
FractionLess(a, b) ==
  LET n == IF Len(a) < Len(b) THEN Len(b) ELSE Len(a)
      x(k) == IF k <= Len(a) THEN a[k] ELSE 0
      y(k) == IF k <= Len(b) THEN b[k] ELSE 0
  IN IF \A k \in 1..n : x(k) = y(k) THEN FALSE
     ELSE LET first == CHOOSE k \in 1..n :
                         x(k) # y(k) /\ \A m \in 1..(k - 1) : x(m) = y(m)
          IN x(first) < y(first)

\* digits without their leading zeros (zero stays <<0>>)
StripLeadingZeros(d) ==
  IF \A k \in 1..Len(d) : d[k] = 0 THEN (IF d = <<>> THEN d ELSE DecZero)
  ELSE SubSeq(d, CHOOSE k \in 1..Len(d) :
                   d[k] # 0 /\ \A m \in 1..(k - 1) : d[m] = 0, Len(d))

\* whether digits * 10^exp, rounded to the nearest f64, is finite
RoundsToFinite(digits, exp) ==
  LET sig == StripLeadingZeros(digits)
      point == Len(sig) + exp
  IN IF sig = DecZero THEN TRUE
     ELSE IF point # Len(F64_OVERFLOW) THEN point < Len(F64_OVERFLOW)
     ELSE FractionLess(sig, F64_OVERFLOW)

\* str::parse::<f64> (dec2flt): optional sign, then a number or inf/nan;
\* the f64 is kept as its class, all that f64::is_finite reads
parse_f64(src) ==
  IF src = <<>> THEN None
  ELSE LET s == IF Head(src) \in {43, 45} THEN Tail(src) ELSE src
           num == parse_number(s)
       IN IF s = <<>> THEN None
          ELSE IF num.some
            THEN Some(IF RoundsToFinite(num.v.digits, num.v.exp) THEN "finite" ELSE "inf")
          ELSE parse_inf_nan(s)

\* f64::is_finite
is_finite(f) == f = "finite"

\* the Number arm accepting only what is held as a float
validate_float_number_f64_only(n) == is_f64(n)

\* the Number arm of validate_float
validate_float_number(n) == is_f64(n) \/ is_i64(n) \/ is_u64(n)

\* the String arm trusting the reject list: any parsed value is accepted
validate_float_string_unchecked(s) ==
  LET trimmed == trim(s)
      lower == to_lowercase(trimmed)
  IN IF trimmed = <<>> THEN FALSE
     ELSE IF lower \in FLOAT_SPECIAL_TOKENS THEN FALSE
     ELSE parse_f64(trimmed).some

\* the String arm reading no '+' before a number
validate_float_string_no_plus(s) ==
  LET trimmed == trim(s)
      lower == to_lowercase(trimmed)
      parsed == parse_f64(trimmed)
  IN IF trimmed = <<>> THEN FALSE
     ELSE IF lower \in FLOAT_SPECIAL_TOKENS THEN FALSE
     ELSE IF Head(trimmed) = 43 THEN FALSE
     ELSE IF parsed.some THEN is_finite(parsed.v)
     ELSE FALSE

\* the String arm of validate_float
validate_float_string(s) ==
  LET trimmed == trim(s)
      lower == to_lowercase(trimmed)
      parsed == parse_f64(trimmed)
  IN IF trimmed = <<>> THEN FALSE
     ELSE IF lower \in FLOAT_SPECIAL_TOKENS THEN FALSE
     ELSE IF parsed.some THEN is_finite(parsed.v)
     ELSE FALSE

validate_float(value) ==
  IF value.tag = "Number" THEN validate_float_number(value)
  ELSE IF value.tag = "String" THEN validate_float_string(value.s)
  ELSE FALSE

----------------------------------------------------------------------------
(* Text/text-validator *)

\* char::is_ascii_graphic: U+0021 '!' to U+007E '~'
is_ascii_graphic(c) == c \in 33..126

\* the closure given to chars().all()
text_char_allowed(c) ==
  is_ascii_graphic(c) \/ is_whitespace(c) \/ (c >= 32 /\ c # 127)

\* validate_text without the test of the trimmed text
validate_text_blank_allowed(text) ==
  IF text = <<>> THEN FALSE
  ELSE \A k \in 1..Len(text) : text_char_allowed(text[k])

validate_text(text) ==
  IF text = <<>> THEN FALSE
  ELSE /\ trim(text) # <<>>
       /\ \A k \in 1..Len(text) : text_char_allowed(text[k])

----------------------------------------------------------------------------
(* URL/url-validator: Url::parse of the url crate, as far as it decides    *)
(* failure, the scheme and the presence of a host.  Percent-escapes inside *)
(* a host and IPv4 embedded in an IPv6 literal are not modelled; no input  *)
(* of the model has them.                                                  *)

is_ascii_alpha(c) == c \in 65..90 \/ c \in 97..122
is_ascii_digit(c) == c \in 48..57
is_ascii_hexdigit(c) == is_ascii_digit(c) \/ c \in 65..70 \/ c \in 97..102

\* first position of s holding a character of set, Len(s) + 1 if none
IndexOf(s, set) ==
  IF \E k \in 1..Len(s) : s[k] \in set
  THEN CHOOSE k \in 1..Len(s) : s[k] \in set /\ \A m \in 1..(k - 1) : s[m] \notin set
  ELSE Len(s) + 1

\* last position of s holding c, 0 if none
LastIndexOf(s, c) ==
  IF \E k \in 1..Len(s) : s[k] = c
  THEN CHOOSE k \in 1..Len(s) : s[k] = c /\ \A m \in (k + 1)..Len(s) : s[m] # c
  ELSE 0

\* Input::new: C0 controls and spaces are trimmed at both ends, and ASCII
\* tab and newline are skipped wherever they are
RECURSIVE url_trim_start(_)
url_trim_start(s) ==
  IF s # <<>> /\ Head(s) <= 32 THEN url_trim_start(Tail(s)) ELSE s

RECURSIVE url_trim_end(_)
url_trim_end(s) ==
  IF s # <<>> /\ s[Len(s)] <= 32
  THEN url_trim_end(SubSeq(s, 1, Len(s) - 1))
  ELSE s

url_input(text) ==
  SelectSeq(url_trim_end(url_trim_start(text)), LAMBDA c : c \notin {9, 10, 13})

\* number of leading characters of s that may continue a scheme
RECURSIVE SchemePrefixLen(_)
SchemePrefixLen(s) ==
  IF s # <<>> /\ (is_ascii_alpha(Head(s)) \/ is_ascii_digit(Head(s)) \/ Head(s) \in {43, 45, 46})
  THEN 1 + SchemePrefixLen(Tail(s))
  ELSE 0

\* Parser::parse_scheme: a letter, then letters, digits, '+', '-', '.', then
\* ':'; the scheme is kept in lower case
parse_scheme(input) ==
  IF input = <<>> \/ ~is_ascii_alpha(Head(input)) THEN None
  ELSE LET n == SchemePrefixLen(input)
       IN IF n < Len(input) /\ input[n + 1] = 58
          THEN Some([scheme |-> AsciiLower(SubSeq(input, 1, n)), rest |-> Drop(input, n + 1)])
          ELSE None

FILE_SCHEME == Str("file")

\* SchemeType::from
SPECIAL_NOT_FILE == { Str("http"), Str("https"), Str("ws"), Str("wss"), Str("ftp") }

scheme_type(scheme) ==
  IF scheme = FILE_SCHEME THEN "File"
  ELSE IF scheme \in SPECIAL_NOT_FILE THEN "SpecialNotFile"
  ELSE "NotSpecial"

\* the forbidden host code points among the characters of the inputs
\* (NUL, tab, LF, CR, space, '#', '/', ':', '<', '>', '?', '@', '[', '\',
\* ']', '^', '|'), and for a domain also '%', the C0 controls and DEL
FORBIDDEN_HOST == {0, 9, 10, 13, 32, 35, 47, 58, 60, 62, 63, 64, 91, 92, 93, 94, 124}
FORBIDDEN_DOMAIN == FORBIDDEN_HOST \cup (0..31) \cup {37, 127}

\* host::parse_ipv6addr on the text between '[' and ']': groups of one to
\* four hex digits, eight of them, or fewer around a single "::"
ipv6_valid(s) ==
  LET colon(k) == k \in 1..Len(s) /\ s[k] = 58
      compressions == { k \in 1..Len(s) : colon(k) /\ colon(k + 1) }
      groups == { k \in 1..Len(s) : ~colon(k) /\ (k = 1 \/ colon(k - 1)) }
  IN /\ \A k \in 1..Len(s) : colon(k) \/ is_ascii_hexdigit(s[k])
     /\ Cardinality(compressions) <= 1
     /\ \A k \in 1..Len(s) : ~(\A m \in k..(k + 4) : m <= Len(s) /\ ~colon(m))
     /\ colon(1) => colon(2)
     /\ colon(Len(s)) => colon(Len(s) - 1)
     /\ IF compressions # {} THEN Cardinality(groups) <= 7 ELSE Cardinality(groups) = 8

\* the labels of a host: s split at every '.'
RECURSIVE split_dots(_)
split_dots(s) ==
  LET n == IndexOf(s, {46})
  IN IF n > Len(s) THEN <<s>>
     ELSE <<SubSeq(s, 1, n - 1)>> \o split_dots(Drop(s, n))

\* value of a digit in a radix, -1 if it is none
digit_value(c, radix) ==
  LET v == IF is_ascii_digit(c) THEN c - 48
           ELSE IF c \in 97..102 THEN c - 87
           ELSE IF c \in 65..70 THEN c - 55
           ELSE -1
  IN IF v < radix THEN v ELSE -1

\* u32::from_str_radix as the pair <<value \div 256, value % 256>>, the first
\* component stopping at 2^24 when the value overflows a u32
RECURSIVE radix_value(_, _, _)
radix_value(s, radix, acc) ==
  IF s = <<>> THEN acc
  ELSE LET low == acc[2] * radix + digit_value(Head(s), radix)
           high == acc[1] * radix + (low \div 256)
       IN radix_value(Tail(s), radix,
                      <<IF high > 16777216 THEN 16777216 ELSE high, low % 256>>)

\* host::parse_ipv4number: decimal, octal after a leading 0, hex after 0x
parse_ipv4number(part) ==
  LET hex == Len(part) >= 2 /\ part[1] = 48 /\ part[2] \in {120, 88}
      octal == ~hex /\ Len(part) >= 2 /\ part[1] = 48
      radix == IF hex THEN 16 ELSE IF octal THEN 8 ELSE 10
      body == IF hex THEN Drop(part, 2) ELSE IF octal THEN Drop(part, 1) ELSE part
  IN IF part = <<>> THEN None
     ELSE IF \E k \in 1..Len(body) : digit_value(body[k], radix) < 0 THEN None
     ELSE Some(radix_value(body, radix, <<0, 0>>))

\* host::ends_in_a_number: the last label, a final '.' apart, is a number
ends_in_a_number(domain) ==
  LET parts == split_dots(domain)
      n == Len(parts)
      last == IF parts[n] = <<>> /\ n > 1 THEN parts[n - 1] ELSE parts[n]
  IN last # <<>>
     /\ \/ \A k \in 1..Len(last) : is_ascii_digit(last[k])
        \/ parse_ipv4number(last).some

\* 256^n for n in 0..3
Pow256(n) == IF n = 0 THEN 1 ELSE IF n = 1 THEN 256 ELSE IF n = 2 THEN 65536 ELSE 16777216

\* host::parse_ipv4addr: at most four numbers, all but the last below 256,
\* the last filling the bytes left
ipv4_valid(domain) ==
  LET all == split_dots(domain)
      parts == IF all[Len(all)] = <<>> THEN SubSeq(all, 1, Len(all) - 1) ELSE all
      n == Len(parts)
  IN /\ n \in 1..4
     /\ \A k \in 1..n : parse_ipv4number(parts[k]).some
     /\ \A k \in 1..(n - 1) : parse_ipv4number(parts[k]).v[1] = 0
     /\ parse_ipv4number(parts[n]).v[1] < Pow256(4 - n)

\* Host::parse (special schemes) and Host::parse_opaque (the others)
parse_host_str(host_str, special) ==
  IF host_str # <<>> /\ Head(host_str) = 91
  THEN IF host_str[Len(host_str)] = 93
          /\ ipv6_valid(SubSeq(host_str, 2, Len(host_str) - 1))
       THEN Some([kind |-> "Ipv6", str |-> host_str])
       ELSE None
  ELSE IF ~special
  THEN IF \E k \in 1..Len(host_str) : host_str[k] \in FORBIDDEN_HOST THEN None
       ELSE Some([kind |-> "Domain", str |-> host_str])
  ELSE IF host_str = <<>> THEN None
  ELSE IF \E k \in 1..Len(host_str) : host_str[k] \in FORBIDDEN_DOMAIN THEN None
  ELSE IF ends_in_a_number(host_str)
  THEN IF ipv4_valid(host_str) THEN Some([kind |-> "Ipv4", str |-> host_str]) ELSE None
  ELSE Some([kind |-> "Domain", str |-> AsciiLower(host_str)])

\* Parser::parse_host: the host ends before '/', '?', '#' ('\' too in a
\* special scheme), or before a ':' outside square brackets
RECURSIVE host_end(_, _, _, _)
host_end(s, k, inside, special) ==
  IF k > Len(s) THEN k
  ELSE IF s[k] \in {47, 63, 35} \/ (special /\ s[k] = 92) THEN k
  ELSE IF s[k] = 58 /\ ~inside THEN k
  ELSE host_end(s, k + 1, IF s[k] = 91 THEN TRUE ELSE IF s[k] = 93 THEN FALSE ELSE inside,
                special)

\* u16::MAX
PORT_MAX == Digits("65535")

\* Parser::parse_port, after the ':': digits up to 65535, then the end or one
\* of '/', '\', '?', '#'
parse_port_ok(s) ==
  LET n == DigitPrefixLen(s)
      digits == StripLeadingZeros([k \in 1..n |-> s[k] - 48])
  IN /\ n > 0 => DecLeq(digits, PORT_MAX)
     /\ n < Len(s) => s[n + 1] \in {47, 92, 63, 35}

\* a parsed Url: its scheme and its host
UrlOk(scheme, host) == [ok |-> TRUE, scheme |-> scheme, host |-> host]
UrlErr == [ok |-> FALSE]

\* an Option<Host> with the empty domain turned into None (HostInternal)
HostOption(host) == IF host.str = <<>> THEN None ELSE Some(host)

\* Parser::after_double_slash: userinfo up to the last '@' of the authority,
\* host, port; the path, query and fragment that follow never fail
after_double_slash(input, scheme, special) ==
  LET stops == IF special THEN {47, 63, 35, 92} ELSE {47, 63, 35}
      authority == SubSeq(input, 1, IndexOf(input, stops) - 1)
      last_at == LastIndexOf(authority, 64)
      userinfo == SubSeq(input, 1, last_at - 1)
      has_authority == last_at > 1 /\ userinfo # <<58>>
      after_at == Drop(input, last_at)
      hend == host_end(after_at, 1, FALSE, special)
      host == parse_host_str(SubSeq(after_at, 1, hend - 1), special)
      remaining == Drop(after_at, hend - 1)
      has_port == remaining # <<>> /\ Head(remaining) = 58
  IN IF last_at = 1 /\ after_at # <<>> /\ Head(after_at) \in stops THEN UrlErr
     ELSE IF ~host.some THEN UrlErr
     ELSE IF host.v.str = <<>> /\ (has_port \/ special) THEN UrlErr
     ELSE IF has_port /\ ~parse_port_ok(Tail(remaining)) THEN UrlErr
     ELSE IF host.v.str = <<>> /\ has_authority THEN UrlErr
     ELSE UrlOk(scheme, HostOption(host.v))

\* Parser::file_host: a host that is a Windows drive letter is a path
is_windows_drive_letter(s) ==
  Len(s) = 2 /\ is_ascii_alpha(s[1]) /\ s[2] \in {58, 124}

LOCALHOST == Str("localhost")

\* Parser::parse_file: only a host after "file://" can fail
parse_file(input, scheme) ==
  IF Len(input) >= 2 /\ input[1] \in {47, 92} /\ input[2] \in {47, 92}
  THEN LET after == Drop(input, 2)
           host_str == SubSeq(after, 1, IndexOf(after, {47, 92, 63, 35}) - 1)
           host == parse_host_str(host_str, TRUE)
       IN IF host_str = <<>> \/ is_windows_drive_letter(host_str) THEN UrlOk(scheme, None)
          ELSE IF ~host.some THEN UrlErr
          ELSE IF host.v.str = LOCALHOST THEN UrlOk(scheme, None)
          ELSE UrlOk(scheme, Some(host.v))
  ELSE UrlOk(scheme, None)

\* s without its leading '/' and '\'
RECURSIVE skip_slashes(_)
skip_slashes(s) ==
  IF s # <<>> /\ Head(s) \in {47, 92} THEN skip_slashes(Tail(s)) ELSE s

\* Url::parse without a base URL
Url_parse(text) ==
  LET input == url_input(text)
      s == parse_scheme(input)
  IN IF ~s.some THEN UrlErr
     ELSE LET scheme == s.v.scheme
              rest == s.v.rest
              type == scheme_type(scheme)
          IN IF type = "File" THEN parse_file(rest, scheme)
             ELSE IF type = "SpecialNotFile"
               THEN after_double_slash(skip_slashes(rest), scheme, TRUE)
             ELSE IF Len(rest) >= 2 /\ rest[1] = 47 /\ rest[2] = 47
               THEN after_double_slash(Drop(rest, 2), scheme, FALSE)
             ELSE UrlOk(scheme, None)

\* the schemes of has_valid_scheme
VALID_SCHEMES ==
  { Str("http"), Str("https"), Str("ftp"), Str("ftps"), Str("ws"), Str("wss"),
    Str("data"), Str("mailto"), Str("tel"), Str("ssh"), Str("git") }

NO_HOST_SCHEMES == { Str("mailto"), Str("tel"), Str("data") }

HOST_SCHEMES ==
  { Str("http"), Str("https"), Str("ftp"), Str("ftps"), Str("ws"), Str("wss"),
    Str("ssh"), Str("git") }

\* the Ok(url) arm without the host test
validate_parsed_url_no_host_test(url) ==
  url.scheme \in VALID_SCHEMES \/ url.scheme = FILE_SCHEME

\* the Ok(url) arm without the arm for file
validate_parsed_url_no_file_arm(url) ==
  LET scheme == url.scheme
      has_valid_scheme == scheme \in VALID_SCHEMES
  IN IF scheme \in NO_HOST_SCHEMES THEN has_valid_scheme
     ELSE IF scheme \in HOST_SCHEMES THEN has_valid_scheme /\ url.host.some
     ELSE has_valid_scheme

\* the Ok(url) arm accepting whatever reaches its last line
validate_parsed_url_open_ended(url) ==
  LET scheme == url.scheme
      has_valid_scheme == scheme \in VALID_SCHEMES
  IN IF scheme \in NO_HOST_SCHEMES THEN has_valid_scheme
     ELSE IF scheme \in HOST_SCHEMES THEN has_valid_scheme /\ url.host.some
     ELSE TRUE

\* the Ok(url) arm of validate_url
validate_parsed_url(url) ==
  LET scheme == url.scheme
      has_valid_scheme == scheme \in VALID_SCHEMES
      has_host == url.host.some
  IN IF scheme \in NO_HOST_SCHEMES THEN has_valid_scheme
     ELSE IF scheme \in HOST_SCHEMES THEN has_valid_scheme /\ has_host
     ELSE IF scheme = FILE_SCHEME THEN TRUE
     ELSE has_valid_scheme

validate_url(text) ==
  LET parsed == Url_parse(text)
  IN IF parsed.ok THEN validate_parsed_url(parsed) ELSE FALSE

----------------------------------------------------------------------------
(* The exported validate(input: JsValue) of each crate: the input is       *)
(* decoded with serde_wasm_bindgen::from_value into ValidationInput.       *)

\* JavaScript values the host passes
JsUndefined == [type |-> "undefined"]
JsNull == [type |-> "null"]
JsBoolean(b) == [type |-> "boolean", b |-> b]
JsString(s) == [type |-> "string", s |-> s]
JsSymbol == [type |-> "symbol"]
JsFunction == [type |-> "function"]
JsArray(items) == [type |-> "array", items |-> items]
JsObject(props) == [type |-> "object", props |-> props]

\* a Number: an f64, class "finite" (mant * 10^exp, signed), "nan" or "inf"
JsNumber(class, neg, mant, exp) ==
  [type |-> "number", class |-> class, neg |-> neg, mant |-> mant, exp |-> exp]

\* a BigInt: a signed integer of any size
JsBigInt(neg, mag) == [type |-> "bigint", neg |-> neg, mag |-> mag]

\* Result<T, Error>
Ok(v) == [ok |-> TRUE, v |-> v]
Err == [ok |-> FALSE]

\* Number.MAX_SAFE_INTEGER, 2^53 - 1
MAX_SAFE_INTEGER == Digits("9007199254740991")

\* n zeros
Zeros(n) == [k \in 1..n |-> 0]

\* the integer magnitude a finite f64 holds, None when it has a fraction
\* or more digits than any safe integer
js_integer_magnitude(n) ==
  LET mant == StripTrailingZeros(StripLeadingZeros(n.mant))
      exp == n.exp + (Len(StripLeadingZeros(n.mant)) - Len(mant))
  IN IF mant = DecZero THEN Some(DecZero)
     ELSE IF exp < 0 THEN None
     ELSE IF Len(mant) + exp > Len(MAX_SAFE_INTEGER) THEN None
     ELSE Some(mant \o Zeros(exp))

\* Number.isSafeInteger
is_safe_integer(n) ==
  /\ n.class = "finite"
  /\ js_integer_magnitude(n).some
  /\ DecLeq(js_integer_magnitude(n).v, MAX_SAFE_INTEGER)

\* serde_json's Value visitor, visit_i64: Number::from(i64), zero of
\* either sign being the unsigned 0
value_visit_i64(neg, mag) ==
  IF neg /\ mag # DecZero THEN NegInt(mag) ELSE PosInt(mag)

\* serde_json's Value visitor, visit_f64: Number::from_f64, Null for a
\* value that is not finite
value_visit_f64(n) ==
  IF n.class = "finite" THEN Float(n.neg, n.mant, n.exp) ELSE Null

\* a BigInt is read as i64, then as u64, and is an error outside both
bigint_to_value(b) ==
  IF b.neg /\ b.mag # DecZero
  THEN IF DecLeq(b.mag, I64_MIN_MAG) THEN Ok(NegInt(b.mag)) ELSE Err
  ELSE IF DecLeq(b.mag, U64_MAX) THEN Ok(PosInt(b.mag)) ELSE Err

\* Value::deserialize over serde_wasm_bindgen's deserialize_any
RECURSIVE deserialize_value(_)
deserialize_value(js) ==
  IF js.type \in {"undefined", "null"} THEN Ok(Null)
  ELSE IF js.type = "boolean" THEN Ok(Bool(js.b))
  ELSE IF js.type = "bigint" THEN bigint_to_value(js)
  ELSE IF js.type = "number"
    THEN IF is_safe_integer(js)
         THEN Ok(value_visit_i64(js.neg, js_integer_magnitude(js).v))
         ELSE Ok(value_visit_f64(js))
  ELSE IF js.type = "string" THEN Ok(String(js.s))
  ELSE IF js.type = "array"
    THEN LET items == [k \in 1..Len(js.items) |-> deserialize_value(js.items[k])]
         IN IF \A k \in 1..Len(items) : items[k].ok
            THEN Ok(Array([k \in 1..Len(items) |-> items[k].v]))
            ELSE Err
  ELSE IF js.type = "object"
    THEN LET entries == [key \in DOMAIN js.props |-> deserialize_value(js.props[key])]
         IN IF \A key \in DOMAIN entries : entries[key].ok
            THEN Ok(Object([key \in DOMAIN entries |-> entries[key].v]))
            ELSE Err
  ELSE Err

\* String::deserialize over serde_wasm_bindgen's deserialize_string
deserialize_string(js) ==
  IF js.type = "string" THEN Ok(js.s) ELSE Err

\* the property "value" of the input, None when the input is no object or
\* has no such property (a property holding undefined is a property)
value_field(input) ==
  IF input.type = "object" /\ "value" \in DOMAIN input.props
  THEN Some(input.props["value"])
  ELSE None

\* from_value::<ValidationInput> where value: serde_json::Value
from_value_with_value(input) ==
  LET field == value_field(input)
  IN IF ~field.some THEN Err
     ELSE LET value == deserialize_value(field.v)
          IN IF value.ok THEN Ok([value |-> value.v]) ELSE Err

\* from_value::<ValidationInput> where value: String
from_value_with_string(input) ==
  LET field == value_field(input)
  IN IF ~field.some THEN Err
     ELSE LET value == deserialize_string(field.v)
          IN IF value.ok THEN Ok([value |-> value.v]) ELSE Err

\* boolean-validator, validate
boolean_validate(input) ==
  LET input_obj == from_value_with_value(input)
  IN IF input_obj.ok THEN validate_boolean(input_obj.v.value) ELSE FALSE

\* integer-validator, validate keeping a flag across calls: after its first
\* call every input is rejected
integer_validate_once(input) ==
  LET input_obj == from_value_with_value(input)
  IN IF history # <<>> THEN FALSE
     ELSE IF input_obj.ok THEN validate_integer(input_obj.v.value) ELSE FALSE

\* integer-validator, validate
integer_validate(input) ==
  LET input_obj == from_value_with_value(input)
  IN IF input_obj.ok THEN validate_integer(input_obj.v.value) ELSE FALSE

\* floatingpoint-validator, validate
float_validate(input) ==
  LET input_obj == from_value_with_value(input)
  IN IF input_obj.ok THEN validate_float(input_obj.v.value) ELSE FALSE

\* text-validator, validate accepting every value that is not a string
text_validate_any_value(input) ==
  LET field == value_field(input)
  IN IF ~field.some THEN FALSE
     ELSE IF field.v.type = "string" THEN validate_text(field.v.s)
     ELSE TRUE

\* text-validator, validate
text_validate(input) ==
  LET input_obj == from_value_with_string(input)
  IN IF input_obj.ok THEN validate_text(input_obj.v.value) ELSE FALSE

\* url-validator, validate
url_validate(input) ==
  LET input_obj == from_value_with_string(input)
  IN IF input_obj.ok THEN validate_url(input_obj.v.value) ELSE FALSE

----------------------------------------------------------------------------
(* Inputs: the values the callers of the validators are given *)

\* most items of a Sequence, most entries of a Mapping
MaxItems == 2

\* every spelling of word in upper and lower case ASCII letters
RECURSIVE CaseVariants(_)
CaseVariants(word) ==
  IF word = <<>> THEN {<<>>}
  ELSE LET c == Head(word)
           heads == IF c \in 97..122 THEN {c, c - 32} ELSE {c}
       IN {<<h>> \o rest : h \in heads, rest \in CaseVariants(Tail(word))}

\* whitespace put around a word
Pads == { <<>>, Str(" "), Str("  "), Str("\t\n"), Str("\r\n "), <<160>> }

Padded(words) == { pre \o w \o post : pre \in Pads, w \in words, post \in Pads }

\* integers a Number holds
PosIntSamples ==
  { PosInt(Digits(d)) :
      d \in { "0", "1", "2", "42", "100", "1000000", "9223372036854775807",
              "9223372036854775808", "18446744073709551615" } }

NegIntSamples ==
  { NegInt(Digits(d)) : d \in { "1", "2", "42", "1000000", "9223372036854775808" } }

\* finite f64 a Number holds: zero of either sign, and the mant * 10^exp
\* that are f64 values
FloatSamples ==
  { Float(neg, DecZero, 0) : neg \in BOOLEAN }
  \cup
  { f \in { Float(neg, Digits(m), e) :
              neg \in BOOLEAN,
              m \in { "1", "5", "11", "42", "123", "314", "425", "99999999", "100000001" },
              e \in { -308, -10, -8, -2, -1, 0, 1, 10, 300, 308 } } :
      RoundsToFinite(f.mant, f.exp) }

NumberSamples == PosIntSamples \cup NegIntSamples \cup FloatSamples

\* values put inside a Sequence or a Mapping
LeafValues ==
  { Null, Bool(TRUE), Bool(FALSE), PosInt(DecOne), PosInt(Digits("42")),
    Float(FALSE, Digits("314"), -2), String(Str("true")), String(Str("42")) }

ArraySamples ==
  { Array(items) : items \in UNION { [1..n -> LeafValues] : n \in 0..MaxItems } }

ObjectKeys == { "value", "number", "a" }

ObjectSamples ==
  { Object(entries) :
      entries \in UNION { [ks -> LeafValues] :
                            ks \in { k \in SUBSET ObjectKeys : Cardinality(k) <= MaxItems } } }

\* every Value that is not a String
NonStringValues ==
  { Null, Bool(TRUE), Bool(FALSE) } \cup NumberSamples \cup ArraySamples \cup ObjectSamples

BooleanAlphabet ==
  { Ord(c) : c \in { "y", "e", "s", "n", "o", "f", "t", "Y", "O", "0", "1", "2", " ", "\n" } }
  \cup { 160 }

BooleanWords ==
  UNION { CaseVariants(tok) : tok \in BOOLEAN_TOKENS }
  \cup { Str("truee"), Str("fals"), Str("yess"), Str("noo"), Str("maybe"),
         Str("null"), Str("-1"), Str("0.5"), Str("t rue"), Str("o n"),
         Str("tr\tue"), Str("1.0"), Str("01"), Str("10") }

BooleanStrings == StringsUpTo(BooleanAlphabet, MaxLen) \cup Padded(BooleanWords)

BooleanInputs == NonStringValues \cup { String(s) : s \in BooleanStrings }

IntegerAlphabet ==
  { Ord(c) : c \in { "0", "1", "9", "+", "-", ".", "e", "a", " ", "\n" } }
  \cup { 160, 1635 }

IntegerWords ==
  { Str(w) :
      w \in { "42", "1000000", "-1000000", "0123", "00", "-0", "+0", "+42", "--42",
              "++42", "+-42", "42-", "42+", "42.5", "42.0", "1.23e10", "1e5", "12abc",
              "abc12", "12.34.56", "1 2", "- 1", "NaN", "nan", "Infinity", "-Infinity",
              "inf", "0x1F", "1_000",
              "9223372036854775807", "+9223372036854775807", "9223372036854775808",
              "-9223372036854775808", "-9223372036854775809", "-9223372036854775810",
              "18446744073709551615", "+18446744073709551615",
              "18446744073709551616", "18446744073709551620",
              "-18446744073709551615", "-9223372036854775807",
              "99999999999999999999", "100000000000000000000",
              "000000000000000000000000000042", "-00009223372036854775808",
              "00018446744073709551615", "00018446744073709551616" } }

IntegerStrings == StringsUpTo(IntegerAlphabet, MaxLen) \cup Padded(IntegerWords)

IntegerInputs == NonStringValues \cup { String(s) : s \in IntegerStrings }

FloatAlphabet ==
  { Ord(c) : c \in { "0", "1", "9", ".", "e", "E", "+", "-", "a", " " } } \cup { 160 }

FloatWords ==
  UNION { { sign \o w : w \in CaseVariants(Str("nan")) \cup CaseVariants(Str("inf")) } :
          sign \in { <<>>, Str("+"), Str("-") } }
  \cup
  { Str(w) :
      w \in { "infinity", "Infinity", "INFINITY", "-infinity", "-Infinity", "+infinity",
              "+Infinity", "iNfInItY", "infinit", "infinityy", "in", "na", "nane",
              "3.14", "0.0", "-3.14", "1.23e10", "-1.23e-10", "-0.5", "42", "-42",
              "+3.14", "not a number", "12.34.56", "12abc", "abc12", "3.14.159",
              "--3.14", "+-3.14", "3.14-", "1e-308", "1e308", "-0.0", "-0", "00.00",
              "1E10", "1e+10", "1e-10", "1e+-10", "1e10.5", "1e1e1", "1.e5", ".5e5",
              ".5", "5.", "-.5", "+.5", "-.", "+.", "+", "-", ".e5", "e5", "1e",
              "1e+", "1 e5", "1e 5", "0x10", "1_0", "1f", "1.0f64",
              "1e309", "-1e309", "2e308", "0e999", "0.0e99999", "0.1e309", "10e307",
              "1e400", "1e-400", "1e99999", "1e-99999", "0.001e311", "0.001e312",
              "1000e305", "1000e306", "1.7976931348623157e308",
              "1.7976931348623158e308", "1.7976931348623159e308",
              "1.797693134862315807e308", "1.797693134862315808e308",
              "-1.797693134862315808e308", "17976931348623158e292",
              "17976931348623159e292", "00017976931348623158e292",
              "179769313486231580793728971405303415079934132710037826936173778980444968292764750946649017977587207096330286416692887910946555547851940402630657488671505820681908902000708383676273854845817711531764475730270069855571366959622842914819860834936475292719074168444365510704342711559699508093042880177904174497792",
              "179769313486231580793728971405303415079934132710037826936173778980444968292764750946649017977587207096330286416692887910946555547851940402630657488671505820681908902000708383676273854845817711531764475730270069855571366959622842914819860834936475292719074168444365510704342711559699508093042880177904174497791",
              "179769313486231580793728971405303415079934132710037826936173778980444968292764750946649017977587207096330286416692887910946555547851940402630657488671505820681908902000708383676273854845817711531764475730270069855571366959622842914819860834936475292719074168444365510704342711559699508093042880177904174497791.999",
              "0.179769313486231580793728971405303415079934132710037826936173778980444968292764750946649017977587207096330286416692887910946555547851940402630657488671505820681908902000708383676273854845817711531764475730270069855571366959622842914819860834936475292719074168444365510704342711559699508093042880177904174497792e309" } }

FloatStrings == StringsUpTo(FloatAlphabet, MaxLen) \cup Padded(FloatWords)

FloatInputs == NonStringValues \cup { String(s) : s \in FloatStrings }

\* a &str argument (the Text and URL validators take no Value)
StrArg(s) == [tag |-> "str", s |-> s]

\* NUL, SOH, tab, newline, carriage return, US, space, 'A', '~', DEL, a C1
\* control, no-break space, E acute, ZERO WIDTH SPACE, IDEOGRAPHIC SPACE
TextAlphabet == { 0, 1, 9, 10, 13, 31, 32, 65, 126, 127, 128, 160, 201, 8203, 12288 }

TextWords ==
  { Str("Hello, World!"), Str("Test 123"), Str("Multi\nline\ntext"),
    Str("Special: @#$%^&*()"), <<201>> \o Str("moji text"), Str("   "),
    Str("\t\n\r"), Str("    \n\t  "), <<20363, 12360, 128512>>,
    Str("Hello") \o <<1>> \o Str("World"), Str("Hello World") \o <<127>>,
    <<0>> \o Str("Hello"), Str("a\tb") \o <<11, 12>> \o Str("c"),
    Str("line") \o <<27>> \o Str("[0m"), <<8232, 8233>>, <<133, 5760, 8192>> }

TextInputs ==
  { StrArg(s) : s \in StringsUpTo(TextAlphabet, MaxLen) \cup Padded(TextWords) }

\* characters that follow a scheme: delimiters, a letter, a digit, a space
UrlAlphabet == { Ord(c) : c \in { ":", "/", "?", "#", "@", "a", "8", " " } }

\* texts enumerated exhaustively: a scheme of each kind (special, not
\* special and needing a host, needing none, file, not allowed, upper case),
\* then ':' and slashes, then every string over the alphabet
UrlEnumerated ==
  LET heads == { Str(scheme) \o Str(sep) :
                   scheme \in { "http", "ftps", "mailto", "file", "xyz", "HtTp" },
                   sep \in { ":", ":/", "://" } }
  IN { head \o tail : head \in heads, tail \in StringsUpTo(UrlAlphabet, MaxLen) }

UrlSchemeWords ==
  { Str(w) : w \in {
    "http", "https", "ftp", "ftps", "ws", "wss", "data", "mailto", "tel", "ssh", "git",
    "file", "xyz", "fake", "javascript", "HTTPS", "File", "MAILTO", "Ssh", "h+t.p-1",
    "ht!tp", "1http", "" } }

UrlTailWords ==
  { Str(w) :
      w \in { "", ":", "://", ":/", ":///", "://example.com", "://www.google.com",
              "://example.com/path/to/resource", "://example.com:8080/path",
              "://user:pass@example.com/path", "://user@server.com", "://192.168.1.1",
              "://example.com?query=value&foo=bar", "://example.com#fragment",
              "://files.example.com", "://github.com/user/repo.git",
              ":///home/user/document.pdf", ":user@example.com", ":+1234567890",
              ":text/plain,Hello%20World", ":image/png;base64,iVBORw0KGgo=",
              "://localhost", "://localhost:3000", "://127.0.0.1", "://[::1]",
              "://[::1]:8080/", "://[1:2:3:4:5:6:7:8]", "://[::g]", "://[::1", "://[]",
              "://example.com:99999", "://example.com:80a", "://example.com:",
              "://user@", "://:8080", "://a b", "://?query", "://#fragment",
              ":example.com", ":/example.com", "://exa\tmple.com" } }
  \cup { Str("://m") \o <<252>> \o Str("nchen.de"), Str("://") \o <<20363, 12360>> \o Str(".jp") }

UrlPlainWords ==
  { Str(w) :
      w \in { "", "not a url", "just some text", "   ", "example.com", "www.example.com",
              "//example.com", "/path", "http//example.com", ":http://example.com",
              " http://example.com ", "\thttps://example.com\n", "ht\ntp://example.com",
              " ftp:// ", "http ://example.com" } }

UrlTexts ==
  UrlEnumerated
  \cup { scheme \o tail : scheme \in UrlSchemeWords, tail \in UrlTailWords }
  \cup UrlPlainWords

UrlInputs == { StrArg(s) : s \in UrlTexts }

\* numbers the host passes: zero of either sign, safe integers, the first
\* integer that is not safe, fractions, large values, NaN and infinities
JsNumberSamples ==
  { JsNumber("finite", neg, Digits(m), e) :
      neg \in BOOLEAN,
      m \in { "0", "1", "2", "42", "15", "314" },
      e \in { -2, -1, 0, 1, 20 } }
  \cup { JsNumber("finite", neg, Digits(m), 0) :
           neg \in BOOLEAN, m \in { "9007199254740991", "9007199254740992" } }
  \cup { JsNumber("nan", FALSE, DecZero, 0) }
  \cup { JsNumber("inf", neg, DecZero, 0) : neg \in BOOLEAN }

JsBigIntSamples ==
  { JsBigInt(neg, Digits(d)) :
      neg \in BOOLEAN,
      d \in { "0", "1", "9223372036854775807", "9223372036854775808",
              "9223372036854775809", "18446744073709551615",
              "18446744073709551616" } }

JsStringAlphabet == { Ord(c) : c \in { "1", "t", "-", ".", " " } }

\* strings the host passes: texts each validator accepts and rejects
JsStringSamples ==
  { JsString(s) :
      s \in StringsUpTo(JsStringAlphabet, MaxLen)
            \cup { Str("true"), Str(" YES "), Str("maybe"), Str("42"), Str(" +007 "),
                   Str("-9223372036854775808"), Str("18446744073709551615"),
                   Str("3.14"), Str("1e400"), Str("nan"), Str("Hello, World!"),
                   Str("a") \o <<1>>, Str("https://example.com"), Str("ssh://"),
                   Str("mailto:user@example.com"), Str("xyz://example.com"),
                   Str("not a url") } }

\* values put inside an array or an object
JsLeafValues ==
  { JsUndefined, JsNull, JsBoolean(TRUE), JsNumber("finite", FALSE, DecOne, 0),
    JsNumber("nan", FALSE, DecZero, 0), JsString(Str("true")), JsSymbol,
    JsBigInt(FALSE, Digits("18446744073709551616")) }

JsArraySamples ==
  { JsArray(items) : items \in UNION { [1..n -> JsLeafValues] : n \in 0..MaxItems } }

JsObjectKeys == { "value", "Value", "a" }

JsObjectSamples ==
  { JsObject(props) :
      props \in UNION { [ks -> JsLeafValues] :
                          ks \in { k \in SUBSET JsObjectKeys : Cardinality(k) <= MaxItems } } }

\* what the property "value" holds
JsValueSamples ==
  { JsUndefined, JsNull, JsBoolean(TRUE), JsBoolean(FALSE), JsSymbol, JsFunction }
  \cup JsNumberSamples \cup JsBigIntSamples \cup JsStringSamples
  \cup JsArraySamples \cup JsObjectSamples

\* what the host passes to validate: values of every type, objects with
\* and without the property "value", alone or beside another property
JsInputs ==
  JsValueSamples
  \cup { JsObject([key \in {"value"} |-> v]) : v \in JsValueSamples }
  \cup { JsObject([key \in {"value", "extra"} |->
                     IF key = "value" THEN v ELSE JsBoolean(TRUE)]) :
           v \in JsValueSamples }

----------------------------------------------------------------------------
(* State machine: a validator is called with a value and returns a bool;  *)
(* the caller takes the result and nothing of the call is kept.           *)

Init ==
  /\ called = "none"
  /\ arg = Null
  /\ result = FALSE
  /\ history = <<>>

\* validate_boolean(&value) is called and computes its result
CallValidateBoolean(value) ==
  /\ called = "none"
  /\ called' = "validate_boolean"
  /\ arg' = value
  /\ result' = validate_boolean(value)
  /\ UNCHANGED history

\* validate_integer(&value) is called and computes its result
CallValidateInteger(value) ==
  /\ called = "none"
  /\ called' = "validate_integer"
  /\ arg' = value
  /\ result' = validate_integer(value)
  /\ UNCHANGED history

\* validate_float(&value) is called and computes its result
CallValidateFloat(value) ==
  /\ called = "none"
  /\ called' = "validate_float"
  /\ arg' = value
  /\ result' = validate_float(value)
  /\ UNCHANGED history

\* validate_text(text) is called and computes its result
CallValidateText(text) ==
  /\ called = "none"
  /\ called' = "validate_text"
  /\ arg' = text
  /\ result' = validate_text(text.s)
  /\ UNCHANGED history

\* validate_url(text) is called and computes its result
CallValidateUrl(text) ==
  /\ called = "none"
  /\ called' = "validate_url"
  /\ arg' = text
  /\ result' = validate_url(text.s)
  /\ UNCHANGED history

\* the call returns to its caller: no state of it remains
Return ==
  /\ called # "none"
  /\ called' = "none"
  /\ arg' = Null
  /\ result' = FALSE
  /\ UNCHANGED history

BooleanNext ==
  \/ called = "none" /\ \E value \in BooleanInputs : CallValidateBoolean(value)
  \/ Return

SpecBoolean == Init /\ [][BooleanNext]_vars

IntegerNext ==
  \/ called = "none" /\ \E value \in IntegerInputs : CallValidateInteger(value)
  \/ Return

SpecInteger == Init /\ [][IntegerNext]_vars

FloatNext ==
  \/ called = "none" /\ \E value \in FloatInputs : CallValidateFloat(value)
  \/ Return

SpecFloat == Init /\ [][FloatNext]_vars

TextNext ==
  \/ called = "none" /\ \E text \in TextInputs : CallValidateText(text)
  \/ Return

SpecText == Init /\ [][TextNext]_vars

UrlNext ==
  \/ called = "none" /\ \E text \in UrlInputs : CallValidateUrl(text)
  \/ Return

SpecUrl == Init /\ [][UrlNext]_vars

\* boolean-validator's validate(input) is called and computes its result
BooleanValidate(input) ==
  /\ called = "none"
  /\ called' = "boolean_validate"
  /\ arg' = input
  /\ result' = boolean_validate(input)

\* integer-validator's validate(input) is called and computes its result
IntegerValidate(input) ==
  /\ called = "none"
  /\ called' = "integer_validate"
  /\ arg' = input
  /\ result' = integer_validate(input)

\* floatingpoint-validator's validate(input) is called and computes its result
FloatValidate(input) ==
  /\ called = "none"
  /\ called' = "float_validate"
  /\ arg' = input
  /\ result' = float_validate(input)

\* text-validator's validate(input) is called and computes its result
TextValidate(input) ==
  /\ called = "none"
  /\ called' = "text_validate"
  /\ arg' = input
  /\ result' = text_validate(input)

\* url-validator's validate(input) is called and computes its result
UrlValidate(input) ==
  /\ called = "none"
  /\ called' = "url_validate"
  /\ arg' = input
  /\ result' = url_validate(input)

\* the values given to both validators of numbers
NumberInputs == IntegerInputs \cup FloatInputs

\* validate_integer and validate_float are called on the same values
NumberNext ==
  \/ called = "none" /\ \E value \in NumberInputs : CallValidateInteger(value)
  \/ called = "none" /\ \E value \in NumberInputs : CallValidateFloat(value)
  \/ Return

SpecNumber == Init /\ [][NumberNext]_vars

\* the host calls the exported validate of any of the five components
ExportsNext ==
  \/ called = "none" /\ \E input \in JsInputs : BooleanValidate(input) /\ UNCHANGED history
  \/ called = "none" /\ \E input \in JsInputs : IntegerValidate(input) /\ UNCHANGED history
  \/ called = "none" /\ \E input \in JsInputs : FloatValidate(input) /\ UNCHANGED history
  \/ called = "none" /\ \E input \in JsInputs : TextValidate(input) /\ UNCHANGED history
  \/ called = "none" /\ \E input \in JsInputs : UrlValidate(input) /\ UNCHANGED history
  \/ Return

SpecExports == Init /\ [][ExportsNext]_vars

\* most calls of a sequence of calls the host makes
MaxCalls == 3

\* inputs of the sequences of calls: a string and a number that the five
\* validators do not all treat alike, and an input that does not decode
HostInputs ==
  { JsObject([key \in {"value"} |-> JsString(Str("1"))]),
    JsObject([key \in {"value"} |-> JsNumber("finite", FALSE, DecOne, 0)]),
    JsNull }

\* the host notes the call just made and what it returned
Noted ==
  /\ Len(history) < MaxCalls
  /\ history' = Append(history, [validator |-> called', input |-> arg', result |-> result'])

\* the host calls the five components in any order, on any inputs
HostNext ==
  \/ called = "none" /\ \E input \in HostInputs : BooleanValidate(input) /\ Noted
  \/ called = "none" /\ \E input \in HostInputs : IntegerValidate(input) /\ Noted
  \/ called = "none" /\ \E input \in HostInputs : FloatValidate(input) /\ Noted
  \/ called = "none" /\ \E input \in HostInputs : TextValidate(input) /\ Noted
  \/ called = "none" /\ \E input \in HostInputs : UrlValidate(input) /\ Noted
  \/ Return

SpecHost == Init /\ [][HostNext]_vars

----------------------------------------------------------------------------
(* Properties of the BooleanValidator *)

\* c is t in either ASCII case
SameLetter(c, t) == c = t \/ (c \in 65..90 /\ c + 32 = t)

\* s is spaces, then a spelling of a token in any case, then spaces
IsPaddedBooleanToken(s) ==
  \E i \in 1..Len(s) : \E j \in i..Len(s) :
    /\ \A k \in 1..(i - 1) : is_whitespace(s[k])
    /\ \A k \in (j + 1)..Len(s) : is_whitespace(s[k])
    /\ \E tok \in BOOLEAN_TOKENS :
         /\ Len(tok) = j - i + 1
         /\ \A k \in 1..Len(tok) : SameLetter(s[i + k - 1], tok[k])

\* C1: validate_boolean(String(s)) is true iff s, with the whitespace around
\* it removed and in lower case, is one of the 12 tokens: any case variant of
\* a token with any whitespace around it is accepted; the empty string, blank
\* strings, tokens with a character more or less or with whitespace inside,
\* and other numeric strings are rejected.
C1_BooleanStringIffToken ==
  (called = "validate_boolean" /\ arg.tag = "String")
    => (result = IsPaddedBooleanToken(arg.s))

C1_Witness ==
  /\ called = "validate_boolean"
  /\ arg = String(Str("\t\nTrUe "))
  /\ result = TRUE

\* the number a Number holds is exactly 0 or exactly 1
NumberIsZeroOrOne(n) ==
  IF n.repr = "PosInt" THEN n.mag \in {DecZero, DecOne}
  ELSE IF n.repr = "NegInt" THEN FALSE
  ELSE n.mant = DecZero \/ (~n.neg /\ n.mant = DecOne /\ n.exp = 0)

\* C2: for a Value that is not a String, validate_boolean is true iff it is a
\* Bool, or a Number that is exactly 0 or 1 in the representation it holds;
\* Null, every Sequence and every Mapping are rejected.
C2_BooleanNonString ==
  (called = "validate_boolean" /\ arg.tag # "String")
    => (result = (\/ arg.tag = "Bool"
                  \/ arg.tag = "Number" /\ NumberIsZeroOrOne(arg)))

C2_Witness ==
  /\ called = "validate_boolean"
  /\ arg = Float(FALSE, Digits("100000001"), -8)
  /\ result = FALSE

----------------------------------------------------------------------------
(* Properties of the IntegerValidator *)

\* the part of s between the whitespace around it: <<i, j>> bounds it
IsCore(s, i, j) ==
  /\ ~is_whitespace(s[i])
  /\ ~is_whitespace(s[j])
  /\ \A k \in 1..(i - 1) : is_whitespace(s[k])
  /\ \A k \in (j + 1)..Len(s) : is_whitespace(s[k])

\* core is an optional sign and one or more decimal digits, and the number
\* written lies in [-2^63, 2^63 - 1] or in [0, 2^64 - 1]
IsIntegerLiteralInRange(core) ==
  LET signed == core # <<>> /\ Head(core) \in {43, 45}
      neg == core # <<>> /\ Head(core) = 45
      ds == IF signed THEN Tail(core) ELSE core
      mag == StripLeadingZeros([k \in 1..Len(ds) |-> ds[k] - 48])
  IN /\ ds # <<>>
     /\ \A k \in 1..Len(ds) : ds[k] \in 48..57
     /\ \/ ~neg /\ DecLeq(mag, U64_MAX)
        \/ neg /\ DecLeq(mag, I64_MIN_MAG)

\* C3: validate_integer(String(s)) is true iff s without the whitespace around
\* it is non-empty and is, in full, an optional single '+' or '-' followed by
\* one or more decimal digits whose value lies in the i64 range or in the u64
\* range; leading zeros, "-0" and "+42" are accepted; double or trailing
\* signs, a decimal point or exponent, letters, the float tokens and values
\* outside both ranges are rejected.
C3_IntegerStringIffLiteral ==
  (called = "validate_integer" /\ arg.tag = "String")
    => (result = (\E i \in 1..Len(arg.s) : \E j \in i..Len(arg.s) :
                    /\ IsCore(arg.s, i, j)
                    /\ IsIntegerLiteralInRange(SubSeq(arg.s, i, j))))

C3_Witness ==
  /\ called = "validate_integer"
  /\ arg = String(Str(" 18446744073709551616\t\n"))
  /\ result = FALSE

\* C4: for a Value that is not a String, validate_integer is true iff it is a
\* Number whose representation is a signed or unsigned 64-bit integer; a
\* Number held as a float is rejected even when its value is whole, and Bool,
\* Null, every Sequence and every Mapping are rejected.
C4_IntegerNonString ==
  (called = "validate_integer" /\ arg.tag # "String")
    => (result = (arg.tag = "Number" /\ arg.repr \in {"PosInt", "NegInt"}))

C4_Witness ==
  /\ called = "validate_integer"
  /\ arg = Float(FALSE, Digits("1"), 10)
  /\ result = FALSE

----------------------------------------------------------------------------
(* Properties of the FloatValidator *)

\* first position of s holding a character of set, Len(s) + 1 if none
FirstIndex(s, set) ==
  IF \E k \in 1..Len(s) : s[k] \in set
  THEN CHOOSE k \in 1..Len(s) : s[k] \in set /\ \A m \in 1..(k - 1) : s[m] \notin set
  ELSE Len(s) + 1

AllDigits(s) == \A k \in 1..Len(s) : s[k] \in 48..57

\* the number written by at most six decimal digits, 10^6 for more
RECURSIVE DecimalValue(_)
DecimalValue(ds) ==
  IF ds = <<>> THEN 0
  ELSE IF Len(ds) > 6 THEN 1000000
  ELSE 10 * DecimalValue(SubSeq(ds, 1, Len(ds) - 1)) + (ds[Len(ds)] - 48)

\* the parts of a float literal: optional sign, integer part, optional '.'
\* and fraction part, optional e/E with optional sign and exponent digits
FloatLiteralParts(core) ==
  LET body == IF core # <<>> /\ Head(core) \in {43, 45} THEN Tail(core) ELSE core
      epos == FirstIndex(body, {101, 69})
      mantissa == SubSeq(body, 1, epos - 1)
      exppart == SubSeq(body, epos + 1, Len(body))
      dpos == FirstIndex(mantissa, {46})
      expsigned == exppart # <<>> /\ Head(exppart) \in {43, 45}
  IN [ ip |-> SubSeq(mantissa, 1, dpos - 1),
       fp |-> SubSeq(mantissa, dpos + 1, Len(mantissa)),
       hasexp |-> epos <= Len(body),
       expneg |-> exppart # <<>> /\ Head(exppart) = 45,
       expdigits |-> IF expsigned THEN Tail(exppart) ELSE exppart ]

\* core is, in full, a float literal
IsFloatLiteral(core) ==
  LET p == FloatLiteralParts(core)
  IN /\ AllDigits(p.ip)
     /\ AllDigits(p.fp)
     /\ Len(p.ip) + Len(p.fp) >= 1
     /\ p.hasexp => (p.expdigits # <<>> /\ AllDigits(p.expdigits))

\* the number a float literal writes is a finite f64 once rounded
FloatLiteralIsFinite(core) ==
  LET p == FloatLiteralParts(core)
      e == DecimalValue(p.expdigits)
      ds == p.ip \o p.fp
  IN RoundsToFinite([k \in 1..Len(ds) |-> ds[k] - 48],
                    (IF p.expneg THEN -e ELSE e) - Len(p.fp))

\* C5: validate_float(String(s)) is true iff s without the whitespace around
\* it is non-empty, is in lower case none of nan, infinity, -infinity, inf,
\* -inf, +inf, is in full a float literal (optional sign, digits with at most
\* one decimal point, optional exponent) and its value is a finite f64; so
\* every spelling of a special value, "+Infinity" included, and every literal
\* too large for a finite f64 is rejected.
C5_FloatStringIffFiniteLiteral ==
  (called = "validate_float" /\ arg.tag = "String")
    => (result = (\E i \in 1..Len(arg.s) : \E j \in i..Len(arg.s) :
                    /\ IsCore(arg.s, i, j)
                    /\ to_lowercase(SubSeq(arg.s, i, j)) \notin FLOAT_SPECIAL_TOKENS
                    /\ IsFloatLiteral(SubSeq(arg.s, i, j))
                    /\ FloatLiteralIsFinite(SubSeq(arg.s, i, j))))

C5_Witness ==
  /\ called = "validate_float"
  /\ arg = String(Str(" +Infinity"))
  /\ result = FALSE

\* C6: for a Value that is not a String, validate_float is true iff it is a
\* Number that is finite in the representation it holds; integers count, and
\* Bool, Null, every Sequence and every Mapping are rejected.
C6_FloatNonString ==
  (called = "validate_float" /\ arg.tag # "String")
    => (result = (/\ arg.tag = "Number"
                  /\ arg.repr = "Float" => RoundsToFinite(arg.mant, arg.exp)))

C6_Witness ==
  /\ called = "validate_float"
  /\ arg = PosInt(U64_MAX)
  /\ result = TRUE

----------------------------------------------------------------------------
(* Properties of the TextValidator *)

\* the C0 control characters that are not whitespace, and DEL
ForbiddenTextChars == (0..8) \cup (14..31) \cup {127}

\* C7: validate_text(text) is true iff text has at least one character that
\* is not whitespace and every character is an ASCII graphic character, a
\* whitespace character or a code point >= 0x20 other than DEL: that is, iff
\* no character is a C0 control that is not whitespace, or DEL.
C7_TextIffPrintable ==
  (called = "validate_text")
    => (result = (/\ \E k \in 1..Len(arg.s) : ~is_whitespace(arg.s[k])
                  /\ \A k \in 1..Len(arg.s) : arg.s[k] \notin ForbiddenTextChars))

C7_Witness ==
  /\ called = "validate_text"
  /\ arg = StrArg(Str("Hello") \o <<1>> \o Str("World"))
  /\ result = FALSE

----------------------------------------------------------------------------
(* Properties of the UrlValidator *)

HostRequiringSchemes ==
  { Str(w) : w \in { "http", "https", "ftp", "ftps", "ws", "wss", "ssh", "git" } }

HostFreeSchemes == { Str(w) : w \in { "mailto", "tel", "data", "file" } }

\* a host-requiring scheme followed by "://" and nothing
SchemeWithoutHost == { scheme \o Str("://") : scheme \in HostRequiringSchemes }

\* C8: for a text that parses as a URL with scheme http, https, ftp, ftps, ws,
\* wss, ssh or git, validate_url is true iff the URL has a non-empty host; the
\* scheme followed by "://" alone is rejected, whether the parse fails or
\* gives a URL without host.
C8_UrlHostRequired ==
  (called = "validate_url")
    => /\ (Url_parse(arg.s).ok /\ Url_parse(arg.s).scheme \in HostRequiringSchemes)
            => (result = (/\ Url_parse(arg.s).host.some
                          /\ Url_parse(arg.s).host.v.str # <<>>))
       /\ (arg.s \in SchemeWithoutHost) => (result = FALSE)

C8_Witness ==
  /\ called = "validate_url"
  /\ arg = StrArg(Str("ssh://"))
  /\ Url_parse(arg.s).ok
  /\ result = FALSE

\* C9: a text that parses as a URL with scheme mailto, tel, data or file is
\* accepted, with or without a host and whatever the rest of the URL is.
C9_UrlHostFree ==
  (called = "validate_url" /\ Url_parse(arg.s).ok
     /\ Url_parse(arg.s).scheme \in HostFreeSchemes)
    => (result = TRUE)

C9_Witness ==
  /\ called = "validate_url"
  /\ arg = StrArg(Str("file:///home/user/document.pdf"))
  /\ Url_parse(arg.s).ok
  /\ ~Url_parse(arg.s).host.some
  /\ result = TRUE

\* C10: a text that does not parse as a URL, or parses with a scheme outside
\* the 12 schemes, is rejected, even when it is well formed and has a host;
\* nothing outside the 12 schemes is accepted.
C10_UrlOthersRejected ==
  (called = "validate_url"
     /\ (Url_parse(arg.s).ok
           => Url_parse(arg.s).scheme \notin (HostRequiringSchemes \cup HostFreeSchemes)))
    => (result = FALSE)

C10_Witness ==
  /\ called = "validate_url"
  /\ arg = StrArg(Str("xyz://example.com"))
  /\ Url_parse(arg.s).ok
  /\ Url_parse(arg.s).host.some
  /\ result = FALSE

----------------------------------------------------------------------------
(* Properties of the exported validate operations *)

ExportedValidators ==
  { "boolean_validate", "integer_validate", "float_validate", "text_validate",
    "url_validate" }

StringValidators == { "text_validate", "url_validate" }

\* the input is an object whose property "value" holds a string
HasStringValue(input) ==
  /\ input.type = "object"
  /\ "value" \in DOMAIN input.props
  /\ input.props["value"].type = "string"

\* the input decoded into the {value: ...} shape the validator expects
DecodedInput(validator, input) ==
  IF validator \in StringValidators
  THEN from_value_with_string(input)
  ELSE from_value_with_value(input)

\* the internal predicate behind an exported validate
InternalPredicate(validator, value) ==
  IF validator = "boolean_validate" THEN validate_boolean(value)
  ELSE IF validator = "integer_validate" THEN validate_integer(value)
  ELSE IF validator = "float_validate" THEN validate_float(value)
  ELSE IF validator = "text_validate" THEN validate_text(value)
  ELSE validate_url(value)

----------------------------------------------------------------------------
(* Integer and float validators compared *)

\* a valid float that is not a valid integer
FloatNotInteger == String(Str("3.14"))

\* C13: every Value that validate_integer accepts, validate_float accepts
\* (so what validate_float rejects, validate_integer rejects): integer
\* Numbers of either signedness and integer strings with a sign, leading
\* zeros, whitespace around them, up to i64::MIN, i64::MAX and u64::MAX.
\* The converse fails: "3.14" is a valid float and not a valid integer.
C13_IntegerImpliesFloat ==
  /\ (called = "validate_integer" /\ result) => validate_float(arg)
  /\ (called = "validate_float" /\ ~result) => ~validate_integer(arg)
  /\ validate_float(FloatNotInteger) /\ ~validate_integer(FloatNotInteger)

C13_Witness ==
  /\ called = "validate_integer"
  /\ arg = String(Str(" +18446744073709551615 "))
  /\ result = TRUE
  /\ validate_float(arg)

====
